---- MODULE Spec2Model ----
(***************************************************************************)
(* Model of scripts/manage_version.py: the VersionManager class and the    *)
(* command line entry point main().                                        *)
(*                                                                         *)
(* Text is modelled as a sequence of one-character strings, so that        *)
(* str.split, int() and the f-string formatting are computed character by  *)
(* character.  The alphabet of version and build values is the ten decimal *)
(* digits, the dot, the signs "+" and "-", the underscore, the six ASCII   *)
(* white space characters (codes 9 to 13 and 32) and the letter "a" (a     *)
(* character int() rejects).  The values kept in the files are single-line *)
(* text.  Characters outside ASCII, among them the decimal digits and the  *)
(* white space int() also accepts there, are not part of the alphabet.     *)
(*                                                                         *)
(* A file is a record [exists, content].  The content is the sequence of   *)
(* the places the regular expressions of the script can match:             *)
(*   src/version.rs         lines  [kind |-> "VERSION" | "BUILD" | "other"]*)
(*   Cargo.toml             lines  [kind |-> "version" | "other"]          *)
(*   VERSION_MANAGEMENT.md  chunks [kind |-> "block" | "text"]             *)
(***************************************************************************)
EXTENDS Integers, Sequences, FiniteSets, TLC

VARIABLES version_rs, cargo_toml, version_md, argv, stdout, exit_code, runs

vars == <<version_rs, cargo_toml, version_md, argv, stdout, exit_code, runs>>
files == <<version_rs, cargo_toml, version_md>>

\* Number of invocations of the tool in one behaviour.
MaxRuns == 2

-----------------------------------------------------------------------------
(* Exceptions: a call returns Ok(value) or Raise(message).                 *)

Ok(v) == [err |-> "", val |-> v]
Raise(e) == [err |-> e, val |-> <<>>]

ErrParse == "Could not parse version from version.rs"
ErrFormat == "Invalid version format"
ErrInt == "invalid literal for int() with base 10"
ErrBumpType == "Invalid bump type"
ErrNoFile == "No such file or directory"

-----------------------------------------------------------------------------
(* Text primitives of the Python runtime.                                  *)

Digits == <<"0", "1", "2", "3", "4", "5", "6", "7", "8", "9">>

IsDigit(c) == \E i \in 1..10 : Digits[i] = c

DigitVal(c) == (CHOOSE i \in 1..10 : Digits[i] = c) - 1

\* The six ASCII characters int() skips at both ends: space, tab, line
\* feed, vertical tab (code 11, written as the character itself: there is
\* no escape for it), form feed and carriage return.
IsSpace(c) ==
    c = " " \/ c = "\t" \/ c = "\n" \/ c = "" \/ c = "\f" \/ c = "\r"

\* s.strip(): white space removed at both ends, as int() does first.
strip(s) ==
    IF \A i \in 1..Len(s) : IsSpace(s[i]) THEN <<>>
    ELSE LET lo == CHOOSE i \in 1..Len(s) :
                       ~IsSpace(s[i]) /\ \A j \in 1..(i - 1) : IsSpace(s[j])
             hi == CHOOSE i \in 1..Len(s) :
                       ~IsSpace(s[i]) /\ \A j \in (i + 1)..Len(s) : IsSpace(s[j])
         IN SubSeq(s, lo, hi)

\* The digits of a numeral: single underscores between digits are allowed,
\* not at either end and not doubled.
IsNumeral(s) ==
    /\ s # <<>>
    /\ IsDigit(s[1]) /\ IsDigit(s[Len(s)])
    /\ \A i \in 1..Len(s) : IsDigit(s[i]) \/ s[i] = "_"
    /\ \A i \in 1..(Len(s) - 1) : ~(s[i] = "_" /\ s[i + 1] = "_")

\* The value of the first n characters of a numeral, underscores skipped.
RECURSIVE digits_value(_, _)
digits_value(s, n) ==
    IF n = 0 THEN 0
    ELSE IF s[n] = "_" THEN digits_value(s, n - 1)
    ELSE digits_value(s, n - 1) * 10 + DigitVal(s[n])

\* A sign and the text after it: the text must be a numeral.
int_signed(sign, body) ==
    IF ~IsNumeral(body) THEN Raise(ErrInt)
    ELSE IF sign = "-" THEN Ok(0 - digits_value(body, Len(body)))
    ELSE Ok(digits_value(body, Len(body)))

\* int(s), base 10: surrounding white space, then an optional sign, then a
\* numeral; anything else raises ValueError.
int_stripped(t) ==
    IF t # <<>> /\ (t[1] = "+" \/ t[1] = "-")
    THEN int_signed(t[1], SubSeq(t, 2, Len(t)))
    ELSE int_signed("+", t)

int(s) == int_stripped(strip(s))

\* The decimal digits of n >= 0.
RECURSIVE digits_of(_)
digits_of(n) ==
    IF n < 10 THEN <<Digits[n + 1]>>
    ELSE Append(digits_of(n \div 10), Digits[(n % 10) + 1])

\* str(n), the "{n}" of an f-string.
str(n) == IF n < 0 THEN <<"-">> \o digits_of(0 - n) ELSE digits_of(n)

\* "{n:04d}": zero-padded to a minimum width of 4, the sign of a negative
\* number first and counted in the width.
RECURSIVE zfill(_, _)
zfill(s, width) == IF Len(s) >= width THEN s ELSE zfill(<<"0">> \o s, width)

format_04d(n) ==
    IF n < 0 THEN <<"-">> \o zfill(digits_of(0 - n), 3)
    ELSE zfill(digits_of(n), 4)

\* s.split('.'): the pieces between the dots, empty pieces included.
RECURSIVE split(_)
split(s) ==
    IF \A i \in 1..Len(s) : s[i] # "."
    THEN <<s>>
    ELSE LET k == CHOOSE i \in 1..Len(s) :
                      s[i] = "." /\ \A j \in 1..(i - 1) : s[j] # "."
         IN <<SubSeq(s, 1, k - 1)>> \o split(SubSeq(s, k + 1, Len(s)))

\* Variant of format_version: minor and patch written in the wrong order.
format_version_swapped(major, minor, patch) ==
    str(major) \o <<".">> \o str(patch) \o <<".">> \o str(minor)

\* f"{major}.{minor}.{patch}"
format_version(major, minor, patch) ==
    str(major) \o <<".">> \o str(minor) \o <<".">> \o str(patch)

-----------------------------------------------------------------------------
(* VersionManager                                                          *)

File(c) == [exists |-> TRUE, content |-> c]
NoFile == [exists |-> FALSE, content |-> <<>>]

RsLine(k, v) == [kind |-> k, val |-> v]
TomlLine(k, v) == [kind |-> k, val |-> v]
MdBlock(v, b) == [kind |-> "block", version |-> v, build |-> b]
MdText == [kind |-> "text", version |-> <<>>, build |-> <<>>]

IsVersionDecl(l) == l.kind = "VERSION"
IsBuildDecl(l) == l.kind = "BUILD"
IsTomlVersion(l) == l.kind = "version"
IsMdBlock(c) == c.kind = "block"

get_current_version(rs) ==
    IF ~rs.exists THEN Raise(ErrNoFile)
    ELSE LET version_match == SelectSeq(rs.content, IsVersionDecl)
             build_match == SelectSeq(rs.content, IsBuildDecl)
         IN IF version_match = <<>> \/ build_match = <<>>
            THEN Raise(ErrParse)
            ELSE Ok([version |-> version_match[1].val,
                     build |-> build_match[1].val])

\* tuple(map(int, parts)): the first component int() rejects raises.
map_int(parts) == [i \in 1..Len(parts) |-> int(parts[i])]

parse_triple(vals) ==
    IF \E i \in 1..3 : vals[i].err # "" THEN Raise(ErrInt)
    ELSE Ok([major |-> vals[1].val, minor |-> vals[2].val, patch |-> vals[3].val])

parse_parts(parts) ==
    IF Len(parts) # 3 THEN Raise(ErrFormat) ELSE parse_triple(map_int(parts))

parse_version(version) == parse_parts(split(version))

BumpTypes == {"major", "minor", "patch", "build"}

\* Variant of bumped_triple: a minor bump forgets to reset patch.
bumped_triple_keeps_patch(t, bump_type) ==
    CASE bump_type = "major" -> [major |-> t.major + 1, minor |-> 0, patch |-> 0]
      [] bump_type = "minor" -> [major |-> t.major, minor |-> t.minor + 1, patch |-> t.patch]
      [] bump_type = "patch" -> [major |-> t.major, minor |-> t.minor, patch |-> t.patch + 1]

\* The (major, minor, patch) of lines 55-66 for the three semantic bumps.
bumped_triple(t, bump_type) ==
    CASE bump_type = "major" -> [major |-> t.major + 1, minor |-> 0, patch |-> 0]
      [] bump_type = "minor" -> [major |-> t.major, minor |-> t.minor + 1, patch |-> 0]
      [] bump_type = "patch" -> [major |-> t.major, minor |-> t.minor, patch |-> t.patch + 1]

reset_build == <<"0", "0", "0", "1">>

\* Variant of next_build: the counter wraps to stay within 4 digits.
next_build_wraps(build_num) == format_04d((build_num + 1) % 10000)

\* Variant of next_build: the increment is lost.
next_build_same(build_num) == format_04d(build_num)

next_build(build_num) == format_04d(build_num + 1)

\* Variant of invalid_bump_type: an unknown type is ignored, nothing raised.
invalid_bump_type_ignored(cur, bump_type) == Ok(cur)

\* Line 72: the else branch of the chain of comparisons.
invalid_bump_type(cur, bump_type) == Raise(ErrBumpType)

bump_version(rs, bump_type) ==
    LET cur == get_current_version(rs)
    IN IF cur.err # "" THEN cur
       ELSE LET t == parse_version(cur.val.version)
            IN IF t.err # "" THEN t
               ELSE IF bump_type \in {"major", "minor", "patch"}
               THEN LET n == bumped_triple(t.val, bump_type)
                    IN Ok([version |-> format_version(n.major, n.minor, n.patch),
                           build |-> reset_build])
               ELSE IF bump_type = "build"
               THEN LET build_num == int(cur.val.build)
                    IN IF build_num.err # "" THEN build_num
                       ELSE Ok([version |-> cur.val.version,
                                build |-> next_build(build_num.val)])
               ELSE invalid_bump_type(cur.val, bump_type)

\* re.sub without a count: every match of the declaration is rewritten.
update_version_rs(rs, version, build) ==
    IF ~rs.exists THEN Raise(ErrNoFile)
    ELSE Ok(File([i \in 1..Len(rs.content) |->
                    IF IsVersionDecl(rs.content[i]) THEN RsLine("VERSION", version)
                    ELSE IF IsBuildDecl(rs.content[i]) THEN RsLine("BUILD", build)
                    ELSE rs.content[i]]))

\* re.sub with re.MULTILINE and without a count: every line that starts with
\* a version declaration is rewritten.
update_cargo_toml(cargo, version) ==
    IF ~cargo.exists THEN Raise(ErrNoFile)
    ELSE Ok(File([i \in 1..Len(cargo.content) |->
                    IF IsTomlVersion(cargo.content[i]) THEN TomlLine("version", version)
                    ELSE cargo.content[i]]))

\* Variant of update_version_md: a missing block is an error.
update_version_md_strict(md, version, build) ==
    IF ~md.exists THEN Raise(ErrNoFile)
    ELSE IF \A i \in 1..Len(md.content) : ~IsMdBlock(md.content[i])
    THEN Raise("Could not find the Current Version block")
    ELSE Ok(File([i \in 1..Len(md.content) |->
                    IF IsMdBlock(md.content[i]) THEN MdBlock(version, build)
                    ELSE md.content[i]]))

\* Variant of update_version_md: the Build field is left as it was.
update_version_md_keeps_build(md, version, build) ==
    IF ~md.exists THEN Raise(ErrNoFile)
    ELSE Ok(File([i \in 1..Len(md.content) |->
                    IF IsMdBlock(md.content[i])
                    THEN MdBlock(version, md.content[i].build)
                    ELSE md.content[i]]))

\* re.sub of the "Current Version" block; no match leaves the text as it was.
update_version_md(md, version, build) ==
    IF ~md.exists THEN Raise(ErrNoFile)
    ELSE Ok(File([i \in 1..Len(md.content) |->
                    IF IsMdBlock(md.content[i]) THEN MdBlock(version, build)
                    ELSE md.content[i]]))

\* One printed line; the fields a line does not use are empty.
Line(tag, type, version, build) ==
    [tag |-> tag, type |-> type, version |-> version, build |-> build]

Updated(file) == Line("Updated", file, <<>>, <<>>)

Outcome(err, rs, cargo, md, out) ==
    [err |-> err, rs |-> rs, cargo |-> cargo, md |-> md, out |-> out]

\* Variant of version_changed: the manifest is rewritten on every bump.
version_changed_always(new_version, old_version) == TRUE

\* Line 135: the manifest is rewritten only when the version string changed.
version_changed(new_version, old_version) == new_version # old_version

\* Lines 127-145 of bump: the summary, the three updates in order, the banner.
\* An exception leaves the files already written as they are.
write_files(rs, cargo, md, bump_type, old, new) ==
    LET out0 == << Line("Version Bump", bump_type, <<>>, <<>>),
                   Line("Old", "", old.version, old.build),
                   Line("New", "", new.version, new.build) >>
        rs1 == update_version_rs(rs, new.version, new.build)
    IN IF rs1.err # "" THEN Outcome(rs1.err, rs, cargo, md, out0)
       ELSE
       LET out1 == Append(out0, Updated("version_rs"))
           touch == version_changed(new.version, old.version)
           cargo1 == IF touch THEN update_cargo_toml(cargo, new.version) ELSE Ok(cargo)
       IN IF cargo1.err # "" THEN Outcome(cargo1.err, rs1.val, cargo, md, out1)
          ELSE
          LET out2 == IF touch THEN Append(out1, Updated("cargo_toml")) ELSE out1
              md1 == update_version_md(md, new.version, new.build)
          IN IF md1.err # "" THEN Outcome(md1.err, rs1.val, cargo1.val, md, out2)
             ELSE Outcome("", rs1.val, cargo1.val, md1.val,
                          out2 \o << Updated("version_md"),
                                     Line("Version bumped successfully!", "", <<>>, <<>>),
                                     Line("Next steps", "", new.version, <<>>) >>)

bump(rs, cargo, md, bump_type) ==
    LET old == get_current_version(rs)
    IN IF old.err # "" THEN Outcome(old.err, rs, cargo, md, <<>>)
       ELSE LET new == bump_version(rs, bump_type)
            IN IF new.err # "" THEN Outcome(new.err, rs, cargo, md, <<>>)
               ELSE write_files(rs, cargo, md, bump_type, old.val, new.val)

show(rs, cargo, md) ==
    LET cur == get_current_version(rs)
    IN IF cur.err # "" THEN Outcome(cur.err, rs, cargo, md, <<>>)
       ELSE Outcome("", rs, cargo, md,
                    << Line("Current Version", "", <<>>, <<>>),
                       Line("Version", "", cur.val.version, <<>>),
                       Line("Build", "", <<>>, cur.val.build),
                       Line("Full", "", cur.val.version, cur.val.build) >>)

-----------------------------------------------------------------------------
(* main(): args is sys.argv[1:].                                           *)

Usage == Line("usage", "", <<>>, <<>>)
ErrorLine(e) == Line("Error", e, <<>>, <<>>)

Exit(code, rs, cargo, md, out) ==
    [code |-> code, rs |-> rs, cargo |-> cargo, md |-> md, out |-> out]

\* Variant of run: the error is printed but the exit status is not set.
run_exit_zero(o) ==
    IF o.err # ""
    THEN Exit(0, o.rs, o.cargo, o.md, Append(o.out, ErrorLine(o.err)))
    ELSE Exit(0, o.rs, o.cargo, o.md, o.out)

\* The try/except of lines 171-187: an exception prints one error line and
\* exits with 1; a normal return falls off the end of main, exit status 0.
run(o) ==
    IF o.err # ""
    THEN Exit(1, o.rs, o.cargo, o.md, Append(o.out, ErrorLine(o.err)))
    ELSE Exit(0, o.rs, o.cargo, o.md, o.out)

main(args, rs, cargo, md) ==
    IF Len(args) < 1 THEN Exit(1, rs, cargo, md, <<Usage>>)
    ELSE IF ~cargo.exists
    THEN Exit(1, rs, cargo, md, <<ErrorLine("Could not find Cargo.toml")>>)
    ELSE IF args[1] = "show" THEN run(show(rs, cargo, md))
    ELSE IF args[1] = "bump"
    THEN IF Len(args) < 2
         THEN Exit(1, rs, cargo, md,
                   <<ErrorLine("bump command requires type"), Usage>>)
         ELSE run(bump(rs, cargo, md, args[2]))
    ELSE Exit(1, rs, cargo, md, <<ErrorLine("Unknown command"), Usage>>)

-----------------------------------------------------------------------------
(* Initial files.                                                          *)

\* Values of the VERSION declaration: canonical triples, triples with a
\* leading zero, a negative component, a sign with a vertical tab and an
\* underscore (all accepted by int), and strings parse_version rejects.
InitVersions ==
    { <<"0", ".", "2", ".", "6">>,
      <<"1", ".", "9", ".", "9">>,
      <<"0", "1", ".", "2", ".", "3">>,
      <<"-", "1", ".", "2", ".", "3">>,
      <<"+", "1", ".", "", "2", "_", "0", ".", "3">>,
      <<"1", ".", "2">>,
      <<"1", ".", "2", ".", "3", ".", "4">>,
      <<"1", ".", "a", ".", "3">>,
      <<"1", ".", ".", "3">> }

\* Values of the BUILD declaration; the last one is not a number.
InitBuilds ==
    { <<"0", "0", "0", "7">>, <<"9", "9", "9", "9">>, <<"7">>,
      <<"-", "7">>, <<" ", "1", "_", "0">>, <<"0", "0", "a">> }

RsOther == RsLine("other", <<>>)

InitVersionRs ==
    { File(<<RsOther, RsLine("VERSION", v), RsLine("BUILD", b)>>) :
          v \in InitVersions, b \in InitBuilds }
    \cup { File(<<RsOther, RsLine("BUILD", <<"0", "0", "0", "7">>)>>),
           File(<<RsLine("VERSION", <<"0", ".", "2", ".", "6">>), RsOther>>),
           File(<<RsLine("VERSION", <<"0", ".", "2", ".", "6">>), RsLine("BUILD", <<"0", "0", "0", "7">>),
                  RsLine("VERSION", <<"1", ".", "9", ".", "9">>)>>),
           NoFile }

TomlOther == TomlLine("other", <<>>)

\* A manifest with the package version only, one with a dependency table
\* that has a version line of its own, one without any version line.
InitCargoToml ==
    { File(<<TomlOther, TomlLine("version", v)>>) : v \in {<<"0", ".", "2", ".", "6">>, <<"1", ".", "9", ".", "9">>} }
    \cup { File(<<TomlOther, TomlLine("version", <<"0", ".", "2", ".", "6">>),
                  TomlOther, TomlLine("version", <<"1", ".", "0", ".", "0">>)>>),
           File(<<TomlOther>>),
           NoFile }

InitVersionMd ==
    { File(<<MdText, MdBlock(<<"0", ".", "2", ".", "6">>, <<"0", "0", "0", "7">>), MdText>>),
      File(<<MdText, MdBlock(<<"1", ".", "9", ".", "9">>, <<"9", "9", "9", "9">>)>>),
      File(<<MdText>>),
      NoFile }

InvalidBumpTypes == {"bogus", "Major"}

Init ==
    /\ version_rs \in InitVersionRs
    /\ cargo_toml \in InitCargoToml
    /\ version_md \in InitVersionMd
    /\ argv = <<>>
    /\ stdout = <<>>
    /\ exit_code = 0
    /\ runs = 0

(* One action per form of the command line; each is one run of main().    *)

\* The script run without arguments.
NoArguments ==
    /\ runs < MaxRuns
    /\ LET r == main(<<>>, version_rs, cargo_toml, version_md)
       IN /\ version_rs' = r.rs
          /\ cargo_toml' = r.cargo
          /\ version_md' = r.md
          /\ stdout' = r.out
          /\ exit_code' = r.code
    /\ argv' = <<>>
    /\ runs' = runs + 1

\* `show`
Show ==
    /\ runs < MaxRuns
    /\ LET r == main(<<"show">>, version_rs, cargo_toml, version_md)
       IN /\ version_rs' = r.rs
          /\ cargo_toml' = r.cargo
          /\ version_md' = r.md
          /\ stdout' = r.out
          /\ exit_code' = r.code
    /\ argv' = <<"show">>
    /\ runs' = runs + 1

\* `bump` without a type.
BumpWithoutType ==
    /\ runs < MaxRuns
    /\ LET r == main(<<"bump">>, version_rs, cargo_toml, version_md)
       IN /\ version_rs' = r.rs
          /\ cargo_toml' = r.cargo
          /\ version_md' = r.md
          /\ stdout' = r.out
          /\ exit_code' = r.code
    /\ argv' = <<"bump">>
    /\ runs' = runs + 1

\* `bump <type>`, the type one of the four or not.
Bump ==
    \E bump_type \in BumpTypes \cup InvalidBumpTypes :
        /\ runs < MaxRuns
        /\ LET r == main(<<"bump", bump_type>>, version_rs, cargo_toml, version_md)
           IN /\ version_rs' = r.rs
              /\ cargo_toml' = r.cargo
              /\ version_md' = r.md
              /\ stdout' = r.out
              /\ exit_code' = r.code
        /\ argv' = <<"bump", bump_type>>
        /\ runs' = runs + 1

\* A command that is neither show nor bump.
UnknownCommand ==
    /\ runs < MaxRuns
    /\ LET r == main(<<"release">>, version_rs, cargo_toml, version_md)
       IN /\ version_rs' = r.rs
          /\ cargo_toml' = r.cargo
          /\ version_md' = r.md
          /\ stdout' = r.out
          /\ exit_code' = r.code
    /\ argv' = <<"release">>
    /\ runs' = runs + 1

Next == NoArguments \/ Show \/ BumpWithoutType \/ Bump \/ UnknownCommand

Spec == Init /\ [][Next]_vars

-----------------------------------------------------------------------------
(* Vocabulary of the properties.                                           *)

SemanticTypes == {"major", "minor", "patch"}

\* The last invocation was `bump <type>` with type in types.
LastBump(types) ==
    runs > 0 /\ Len(argv) = 2 /\ argv[1] = "bump" /\ argv[2] \in types

\* ... and bump_version returned: the Old/New summary was printed.
Computed(types) ==
    LastBump(types) /\ Len(stdout) >= 3 /\ stdout[3].tag = "New"

Printed(out, line) == \E i \in 1..Len(out) : out[i] = line

\* This step is an invocation `bump <type>` with type in types.
BumpStep(types) ==
    runs' = runs + 1 /\ Len(argv') = 2 /\ argv'[1] = "bump" /\ argv'[2] \in types

ComputedStep(types) ==
    BumpStep(types) /\ Len(stdout') >= 3 /\ stdout'[3].tag = "New"

\* A decimal numeral without sign, padding or leading zero.
CanonicalNumeral(s) ==
    /\ s # <<>>
    /\ \A i \in 1..Len(s) : s[i] \in {"0", "1", "2", "3", "4", "5", "6", "7", "8", "9"}
    /\ (Len(s) > 1 => s[1] # "0")

CanonicalVersion(v) ==
    Len(split(v)) = 3 /\ \A i \in 1..3 : CanonicalNumeral(split(v)[i])

HasBlock(md) == md.exists /\ \E i \in 1..Len(md.content) : md.content[i].kind = "block"

\* C1: a major, minor or patch bump returns (M+1).0.0, M.(m+1).0 or
\* M.m.(p+1) of the current version (M, m, p), and the build "0001" whatever
\* the build was.
C1_SemanticBump ==
    Computed(SemanticTypes) =>
        LET old == parse_version(stdout[2].version).val
            new == stdout[3]
            M == str(old.major)
            m == str(old.minor)
        IN /\ new.build = <<"0", "0", "0", "1">>
           /\ argv[2] = "major" => split(new.version) = <<str(old.major + 1), <<"0">>, <<"0">>>>
           /\ argv[2] = "minor" => split(new.version) = <<M, str(old.minor + 1), <<"0">>>>
           /\ argv[2] = "patch" => split(new.version) = <<M, m, str(old.patch + 1)>>

C1_Witness ==
    /\ Computed({"minor"})
    /\ stdout[2].version = <<"1", ".", "9", ".", "9">>
    /\ stdout[2].build = <<"9", "9", "9", "9">>
    /\ stdout[3].version = <<"1", ".", "1", "0", ".", "0">>

\* C2: a build bump returns the version string as it was and the build b+1
\* in decimal, zero-padded to at least 4 digits and never capped: 9999
\* gives "10000".  (Builds are non-negative; from a negative b the minus
\* sign takes one of the 4 places.)
C2_BuildBump ==
    Computed({"build"}) =>
        LET old == stdout[2]
            new == stdout[3]
            b == int(old.build).val
        IN /\ new.version = old.version
           /\ int(new.build).err = ""
           /\ int(new.build).val = b + 1
           /\ Len(new.build) >= 4
           /\ b >= 0 =>
                  /\ \A i \in 1..Len(new.build) :
                         new.build[i] \in {"0", "1", "2", "3", "4",
                                           "5", "6", "7", "8", "9"}
                  /\ (Len(new.build) > 4 => new.build[1] # "0")
           /\ (old.build = <<"9", "9", "9", "9">>
                   => new.build = <<"1", "0", "0", "0", "0">>)

C2_Witness ==
    /\ Computed({"build"})
    /\ stdout[2].build = <<"9", "9", "9", "9">>
    /\ stdout[3].build = <<"1", "0", "0", "0", "0">>

\* C3: a successful bump writes the manifest exactly when the type is major,
\* minor or patch; a build bump leaves the manifest as it was, a semantic
\* bump leaves its version declaration equal to the new version; the
\* constants file and the documentation file are written for every type.
C3_ManifestWrittenIffSemantic ==
    [][ (BumpStep(BumpTypes) /\ exit_code' = 0) =>
          /\ Printed(stdout', Updated("cargo_toml")) <=> argv'[2] \in SemanticTypes
          /\ argv'[2] = "build" => cargo_toml' = cargo_toml
          /\ argv'[2] \in SemanticTypes =>
                 \A i \in 1..Len(cargo_toml'.content) :
                     IsTomlVersion(cargo_toml.content[i]) =>
                         cargo_toml'.content[i] = TomlLine("version", stdout'[3].version)
          /\ Printed(stdout', Updated("version_rs"))
          /\ Printed(stdout', Updated("version_md")) ]_vars

C3_Witness ==
    /\ LastBump({"build"}) /\ exit_code = 0
    /\ ~Printed(stdout, Updated("cargo_toml"))
    /\ cargo_toml.exists
    /\ \E i \in 1..Len(cargo_toml.content) :
           /\ IsTomlVersion(cargo_toml.content[i])
           /\ cargo_toml.content[i].val # stdout[3].version

\* C4: update_cargo_toml sets only the first line that starts with a version
\* declaration; every later such line keeps its value.
C4_OnlyFirstDeclarationRewritten ==
    [][ (BumpStep(SemanticTypes) /\ Printed(stdout', Updated("cargo_toml"))) =>
          \A i, j \in 1..Len(cargo_toml.content) :
              (i < j /\ IsTomlVersion(cargo_toml.content[i])) =>
                  cargo_toml'.content[j] = cargo_toml.content[j] ]_vars

\* C5 as stated: `bump <type>` with a type outside the four fails with the
\* "Invalid bump type" error whatever the constants file holds, exit code 1.
C5_Original ==
    (LastBump(InvalidBumpTypes) /\ cargo_toml.exists) =>
        exit_code = 1 /\ stdout = <<ErrorLine(ErrBumpType)>>

\* C5: `bump <type>` with a type outside the four exits with code 1; the
\* error is "Invalid bump type" when the constants file has both declarations
\* and a version of three numeric components (the build is not looked at).
C5_InvalidBumpType ==
    [][ BumpStep(InvalidBumpTypes) =>
          /\ exit_code' = 1
          /\ ( /\ cargo_toml.exists
               /\ get_current_version(version_rs).err = ""
               /\ parse_version(get_current_version(version_rs).val.version).err = "" )
             => stdout' = <<ErrorLine(ErrBumpType)>> ]_vars

C5_Witness ==
    /\ LastBump(InvalidBumpTypes)
    /\ exit_code = 1
    /\ stdout = <<ErrorLine(ErrBumpType)>>
    /\ get_current_version(version_rs).val.build = <<"0", "0", "a">>

\* C6 as stated: for every version of three numeric components, formatting
\* the parsed triple gives the string back, and a semantic bump writes the
\* components it does not change textually as they were.
C6_Original ==
    Computed(BumpTypes) =>
        LET v == stdout[2].version
            t == parse_version(v).val
        IN /\ format_version(t.major, t.minor, t.patch) = v
           /\ argv[2] \in {"minor", "patch"} =>
                  split(stdout[3].version)[1] = split(v)[1]
           /\ argv[2] = "patch" =>
                  split(stdout[3].version)[2] = split(v)[2]

\* C6: the round trip holds for the versions whose three components are
\* decimal numerals without a leading zero.
C6_RoundTripCanonical ==
    (Computed(BumpTypes) /\ CanonicalVersion(stdout[2].version)) =>
        LET v == stdout[2].version
            t == parse_version(v).val
        IN /\ format_version(t.major, t.minor, t.patch) = v
           /\ argv[2] \in {"minor", "patch"} =>
                  split(stdout[3].version)[1] = split(v)[1]
           /\ argv[2] = "patch" =>
                  split(stdout[3].version)[2] = split(v)[2]

C6_Witness ==
    /\ Computed({"patch"})
    /\ stdout[2].version = <<"0", ".", "2", ".", "6">>
    /\ stdout[3].version = <<"0", ".", "2", ".", "7">>

\* C7: when the documentation has no "Current Version" block, a bump whose
\* new version was computed still succeeds (exit 0, confirmation line and
\* banner), the documentation is as it was, and the constants file carries
\* the new version and build.
C7_MissingBlockIsSilent ==
    [][ ( /\ ComputedStep(BumpTypes)
          /\ version_md.exists
          /\ ~HasBlock(version_md) ) =>
          /\ exit_code' = 0
          /\ version_md' = version_md
          /\ Printed(stdout', Updated("version_md"))
          /\ Printed(stdout', Line("Version bumped successfully!", "", <<>>, <<>>))
          /\ get_current_version(version_rs') =
                 Ok([version |-> stdout'[3].version, build |-> stdout'[3].build]) ]_vars

C7_Witness ==
    /\ Computed(BumpTypes)
    /\ exit_code = 0
    /\ version_md.exists /\ ~HasBlock(version_md)
    /\ get_current_version(version_rs).val.build # stdout[2].build

\* The three files agree: same version in the constants file, in every
\* version line of the manifest and in the documentation block, same build
\* in the constants file and the documentation block.
FirstTomlVersion(cargo) == SelectSeq(cargo.content, IsTomlVersion)[1].val

SameVersion ==
    /\ get_current_version(version_rs).err = ""
    /\ cargo_toml.exists
    /\ SelectSeq(cargo_toml.content, IsTomlVersion) # <<>>
    /\ FirstTomlVersion(cargo_toml) = get_current_version(version_rs).val.version
    /\ HasBlock(version_md)

Consistent(rs, cargo, md) ==
    /\ get_current_version(rs).err = ""
    /\ cargo.exists /\ SelectSeq(cargo.content, IsTomlVersion) # <<>>
    /\ FirstTomlVersion(cargo) = get_current_version(rs).val.version
    /\ HasBlock(md)
    /\ \A i \in 1..Len(md.content) :
           IsMdBlock(md.content[i]) =>
               /\ md.content[i].version = get_current_version(rs).val.version
               /\ md.content[i].build = get_current_version(rs).val.build

\* C8: from files where the constants file and the manifest declare the same
\* version and the documentation has a "Current Version" block, a successful
\* bump of any type leaves the three files with the same version and the
\* constants file and the documentation with the same build; so the agreement
\* lasts over every sequence of successful bumps.
C8_BumpKeepsFilesConsistent ==
    [][ (BumpStep(BumpTypes) /\ exit_code' = 0 /\ SameVersion) =>
            Consistent(version_rs', cargo_toml', version_md') ]_vars

C8_Witness ==
    /\ runs >= 2
    /\ LastBump({"build"}) /\ exit_code = 0
    /\ Consistent(version_rs, cargo_toml, version_md)
    /\ get_current_version(version_rs).val =
           [version |-> <<"0", ".", "3", ".", "0">>, build |-> <<"0", "0", "0", "2">>]

\* C9: a bump that fails while reading or computing (declaration missing,
\* version not of three components, component or build not a number, type
\* not recognised) writes none of the three files and exits with code 1.
C9_FailedComputeWritesNothing ==
    [][ (BumpStep(BumpTypes \cup InvalidBumpTypes)
           /\ bump_version(version_rs, argv'[2]).err # "") =>
          /\ version_rs' = version_rs
          /\ cargo_toml' = cargo_toml
          /\ version_md' = version_md
          /\ exit_code' = 1 ]_vars

C9_Witness ==
    /\ LastBump({"build"})
    /\ exit_code = 1
    /\ stdout = <<ErrorLine(ErrInt)>>
    /\ cargo_toml.exists /\ version_md.exists
    /\ parse_version(get_current_version(version_rs).val.version).err = ""

\* (major, minor, patch, build) of a constants file, compared in
\* lexicographic order.
Stored(rs) ==
    LET cur == get_current_version(rs).val
        t == parse_version(cur.version).val
    IN <<t.major, t.minor, t.patch, int(cur.build).val>>

LexLess(a, b) ==
    \E k \in 1..Len(a) : a[k] < b[k] /\ \A j \in 1..(k - 1) : a[j] = b[j]

\* C10: every successful bump from a well-formed constants file makes the
\* stored (major, minor, patch, build) strictly greater in lexicographic
\* order, although the build alone drops to 1 on a semantic bump.
C10_StoredTupleGrows ==
    [][ ( /\ BumpStep(BumpTypes) /\ exit_code' = 0
          /\ int(get_current_version(version_rs).val.build).err = "" ) =>
            LexLess(Stored(version_rs), Stored(version_rs')) ]_vars

C10_Witness ==
    /\ LastBump(SemanticTypes) /\ exit_code = 0
    /\ int(stdout[2].build).err = ""
    /\ int(stdout[2].build).val > 1
    /\ Stored(version_rs)[4] = 1

====
